---- MODULE Spec2Model ----
(***************************************************************************)
(* A model of cassandra_backups/snapshotting.py: the Snapshot descriptor,  *)
(* the BackupWorker orchestrator (snapshot / update_snapshot) and the      *)
(* SnapshotCollection catalog, over an S3 bucket modelled as a map from    *)
(* keys to blobs.                                                          *)
(*                                                                         *)
(* Strings that the code takes apart (paths) are sequences of tokens: the  *)
(* token "/" is the separator, every other token is a slash-free piece.    *)
(***************************************************************************)
EXTENDS Integers, Sequences, FiniteSets, TLC

\* ------------------------------------------------------------------ bounds
\* Number of hosts in env.hosts (fabric's host list).
NumNodes == 2
\* Longest keyspace list of a snapshot descriptor.
MaxKeyspaces == 2
\* Number of candidate backup directories the bucket may hold at first.
MaxCandidates == 3
\* Number of catalog queries one SnapshotCollection instance serves.
MaxQueries == 2
\* Number of times a foreign writer changes the bucket between queries.
MaxChanges == 1

\* ------------------------------------------------------------- universes
HostNames == <<"n1", "n2", "n3", "n4">>
KeyspaceNames == <<"ks1", "ks2", "ks3", "ks4">>
\* Directory names a bucket may hold under the base path; the first four
\* are dates in SNAPSHOT_TIMESTAMP_FORMAT, "latest" is not a date.
DirNames == <<"20230301", "20230101", "20230215", "20221231", "latest">>
None == "<None>"
TableNames == {None, "cf1"}
\* A keyspace list is a sequence of names; the value None in its place is
\* the one-element sequence of the None token, which is no list of names.
NoKeyspaces == <<None>>
BasePath == <<"bk">>
Bucket == "bucket"

Range(s) == {s[i] : i \in 1..Len(s)}

\* --------------------------------------------------------------- strings
\* '/'.join(parts) where every part is a token sequence.
RECURSIVE Join(_)
Join(parts) ==
    IF Len(parts) = 0 THEN <<>>
    ELSE IF Len(parts) = 1 THEN parts[1]
    ELSE parts[1] \o <<"/">> \o Join(Tail(parts))

\* A connection that sends a key as it is given.
get_path_verbatim(path) == path

\* boto's AWSAuthConnection.get_path with suppress_consec_slashes (the
\* default of S3Connection): empty path elements are dropped, so that
\* "a//b" names the object "a/b"; a trailing slash is kept.
get_path(path) ==
    LET elems == SelectSeq(path, LAMBDA p : p # "/")
        trailing == Len(path) > 0 /\ path[Len(path)] = "/"
    IN  Join([i \in 1..Len(elems) |-> <<elems[i]>>])
          \o (IF trailing /\ Len(elems) > 0 THEN <<"/">> ELSE <<>>)

IsPrefix(p, s) == Len(p) <= Len(s) /\ SubSeq(s, 1, Len(p)) = p

\* ------------------------------------------------------------ calendar
\* The days the model knows, as <<year, month, day>>; DirNames[i] is the
\* '%Y%m%d' text of Calendar[i] when i is in the domain of Calendar.
Calendar == <<<<2023, 3, 1>>, <<2023, 1, 1>>, <<2023, 2, 15>>, <<2022, 12, 31>>>>
DateNames == {DirNames[i] : i \in DOMAIN Calendar}

\* datetime.strftime(..., '%Y%m%d')
strftime(date) == DirNames[CHOOSE i \in DOMAIN Calendar : Calendar[i] = date]

\* datetime.strptime(name, '%Y%m%d') raises ValueError on other text.
strptime_raises(name) == name \notin DateNames
strptime(name) == Calendar[CHOOSE i \in DOMAIN Calendar : DirNames[i] = name]

\* Days since 1970-01-01 of a civil date (what time.mktime counts, in a
\* zone without offset).
DaysFromCivil(date) ==
    LET y == IF date[2] <= 2 THEN date[1] - 1 ELSE date[1]
        era == y \div 400
        yoe == y - era * 400
        mp == IF date[2] > 2 THEN date[2] - 3 ELSE date[2] + 9
        doy == (153 * mp + 2) \div 5 + date[3] - 1
        doe == yoe * 365 + yoe \div 4 - yoe \div 100 + doy
    IN  era * 146097 + doe - 719468

\* ------------------------------------------------------------- Snapshot
\* Snapshot.make_snapshot_name: the utc day of creation, formatted.
make_snapshot_name(utcnow) == strftime(utcnow)

\* Snapshot.__init__
Snapshot(base_path, s3_bucket, hosts, keyspaces, table, utcnow) ==
    [s3_bucket |-> s3_bucket,
     name |-> make_snapshot_name(utcnow),
     hosts |-> hosts,
     keyspaces |-> keyspaces,
     table |-> table,
     base_path0 |-> base_path]

\* Snapshot.base_path (the property): '/'.join([self._base_path, self.name])
base_path(snapshot) == Join(<<snapshot.base_path0, <<snapshot.name>>>>)

\* Snapshot.unix_time_name: time.mktime of the day the name spells, here in
\* seconds; the code's factor 1000 scales every value alike and is left
\* out to stay within the integers TLC computes with.
unix_time_name(snapshot) == DaysFromCivil(strptime(snapshot.name)) * 86400

\* Snapshot.__cmp__; it raises when either name is not a date. Python
\* reduces the difference it returns to its sign.
cmp_raises(a, b) == strptime_raises(a.name) \/ strptime_raises(b.name)
Sign(x) == IF x < 0 THEN -1 ELSE IF x > 0 THEN 1 ELSE 0
cmp(a, b) == Sign(unix_time_name(a) - unix_time_name(b))

\* JSON values: null, a string (its text as tokens) and an array.
JNull == [t |-> "null", s |-> <<>>, items |-> <<>>]
JString(text) == [t |-> "string", s |-> text, items |-> <<>>]
JArray(items) == [t |-> "array", s |-> <<>>, items |-> items]

\* json.dumps of the values a manifest holds: None gives null, a str a
\* string, a list an array of what its elements give. A name, a host, a
\* keyspace and a table are one token; a path is a sequence of them.
dumps_str(x) == IF x = None THEN JNull ELSE JString(<<x>>)
dumps_path(path) == JString(path)
dumps_list(xs) ==
    IF xs = NoKeyspaces THEN JNull
    ELSE JArray([i \in DOMAIN xs |-> dumps_str(xs[i])])
dumps_value(key, x) ==
    CASE key \in {"hosts", "keyspaces"} -> dumps_list(x)
      [] key = "base_path" -> dumps_path(x)
      [] OTHER -> dumps_str(x)

\* json.loads of them: null gives None, a string its text, an array the
\* list of what its items give.
loads_str(j) ==
    IF j.t = "null" THEN None
    ELSE IF j.s = <<>> THEN "" ELSE j.s[1]
loads_path(j) == IF j.t = "null" THEN <<None>> ELSE j.s
loads_list(j) ==
    IF j.t = "null" THEN NoKeyspaces
    ELSE [i \in DOMAIN j.items |-> loads_str(j.items[i])]
loads_value(key, j) ==
    CASE key \in {"hosts", "keyspaces"} -> loads_list(j)
      [] key = "base_path" -> loads_path(j)
      [] OTHER -> loads_str(j)

\* json.dumps of a dict / json.loads of a blob. A blob is a record with a
\* kind; only kind "json" parses, to the dict of what its members give.
json_dumps(dict) ==
    [kind |-> "json", obj |-> [key \in DOMAIN dict |-> dumps_value(key, dict[key])]]
json_loads_raises(blob) == blob.kind # "json"
json_loads(blob) == [key \in DOMAIN blob.obj |-> loads_value(key, blob.obj[key])]

\* Snapshot.dump_manifest_file
dump_manifest_file(snapshot) ==
    json_dumps([name |-> snapshot.name,
                base_path |-> snapshot.base_path0,
                hosts |-> snapshot.hosts,
                keyspaces |-> snapshot.keyspaces,
                table |-> snapshot.table])

ManifestFields == {"name", "base_path", "hosts", "keyspaces", "table"}

\* Snapshot.load_manifest_file raises on text that is not JSON (ValueError)
\* and on a dict without one of the keys it reads (KeyError).
load_manifest_file_raises(data) ==
    \/ json_loads_raises(data)
    \/ ~(ManifestFields \subseteq DOMAIN json_loads(data))

\* load_manifest_file without its `snapshot.name = manifest_data['name']`.
load_manifest_file_keeps_default(data, s3_bucket, utcnow) ==
    LET manifest_data == json_loads(data)
    IN  Snapshot(manifest_data["base_path"], s3_bucket,
                 manifest_data["hosts"], manifest_data["keyspaces"],
                 manifest_data["table"], utcnow)

\* Snapshot.load_manifest_file: the constructor names the snapshot after
\* the current day, and the stored name then replaces that name.
load_manifest_file(data, s3_bucket, utcnow) ==
    LET manifest_data == json_loads(data)
        snapshot == Snapshot(manifest_data["base_path"], s3_bucket,
                             manifest_data["hosts"], manifest_data["keyspaces"],
                             manifest_data["table"], utcnow)
    IN  [snapshot EXCEPT !.name = manifest_data["name"]]

\* ---------------------------------------------------------------- state
VARIABLES
    utcnow,        \* the day datetime.utcnow() reports
    s3,            \* the bucket: a function from keys to blobs
    hosts,         \* fabric's env.hosts
    \* BackupWorker, one run of snapshot() or update_snapshot()
    op,            \* "none", "snapshot" or "update_snapshot"
    pc,            \* where the run is: a phase, "done" or "raised"
    snap,          \* the Snapshot argument of the run
    backup_schema, \* BackupWorker.backup_schema
    nodeState,     \* per host, its task in the running fan-out
    todo,          \* per host, the commands its task has yet to issue
    cmdLog,        \* per host, the commands its tasks issued and whether
                   \* each exited zero, in order
    mainCmds,      \* commands the orchestrator itself ran on env.hosts[0]
    pending,       \* an exception raised in the try block is in flight
    events,        \* the phases begun and ended, in order
    writes,        \* the keys write_on_S3 has written, in order
    schemaIdx,     \* write_schema's position in snapshot.keyspaces
    use_local,     \* BackupWorker.use_local
    manifest_file, \* per machine, whose create-upload-manifest last wrote
                   \* /tmp/backupmanifest there
    put_read,      \* per host, whose upload manifest its put was given
    \* SnapshotCollection, one instance
    collection_base_path, \* self.base_path
    snapshots,     \* self.snapshots when it is a list
    snapshotsIsNone, \* self.snapshots is None
    listings,      \* how many times bucket.list was called
    listed,        \* the bucket as it was when last listed
    populations,   \* how many times self.snapshots was rebuilt
    queries,       \* how many queries were served
    result,        \* what the last query gave its caller
    changes        \* how many times a foreign writer changed the bucket

workerVars == <<op, pc, snap, backup_schema, nodeState, todo, cmdLog,
                mainCmds, pending, events, writes, schemaIdx>>
catalogVars == <<collection_base_path, snapshots, snapshotsIsNone, listings,
                 listed, populations, queries, result, changes>>
fileVars == <<use_local, manifest_file, put_read>>
vars == <<utcnow, s3, hosts, workerVars, fileVars, catalogVars>>

Nodes == Range(hosts)

\* BackupWorker.execute_cmd: the machine a host's task runs its commands
\* on, the host itself (run, sudo) or the one the worker runs on
\* (nice_local).
LocalMachine == "localhost"
Machines == Nodes \cup {LocalMachine}
execute_cmd(local, host) == IF local THEN LocalMachine ELSE host

\* -------------------------------------------------------- BackupWorker
\* One command line handed to execute_cmd, by its parts.
Cmd(verb, keyspaces, table, prefix) ==
    [verb |-> verb, keyspaces |-> keyspaces, table |-> table, prefix |-> prefix,
     snapshot |-> "", incremental |-> FALSE]

\* A command line that names the snapshot (-t, --snapshot_name).
Named(cmd, snapshot) == [cmd EXCEPT !.snapshot = snapshot.name]

\* A cassandra-backups-agent command line: --incremental_backups or ''.
Agent(cmd, incremental_backups) == [cmd EXCEPT !.incremental = incremental_backups]

\* Python truth of a table value (None and '' are false).
Truthy(table) == table # None /\ table # ""

\* Python truth of snapshot.keyspaces (None and [] are false), and
\* `snapshot.keyspaces or ''`.
HasKeyspaces(keyspaces) == keyspaces # NoKeyspaces /\ keyspaces # <<>>
OrEmpty(keyspaces) == IF HasKeyspaces(keyspaces) THEN keyspaces ELSE <<>>

\* node_start_backup with one command for all keyspaces in every branch:
\* the table branches do not loop over the keyspaces.
node_start_backup_no_loop(snapshot, incremental_backups) ==
    IF incremental_backups
    THEN <<Cmd("flush", OrEmpty(snapshot.keyspaces),
               IF Truthy(snapshot.table) THEN snapshot.table ELSE "", <<>>)>>
    ELSE <<Named(Cmd("snapshot", OrEmpty(snapshot.keyspaces),
                     IF Truthy(snapshot.table) THEN snapshot.table ELSE "", <<>>),
                 snapshot)>>

\* BackupWorker.node_start_backup: the commands one host is sent.
node_start_backup(snapshot, incremental_backups) ==
    IF incremental_backups
    THEN IF HasKeyspaces(snapshot.keyspaces)
         THEN [i \in 1..Len(snapshot.keyspaces) |->
                 Cmd("flush", <<snapshot.keyspaces[i]>>,
                     IF Truthy(snapshot.table) THEN snapshot.table ELSE "", <<>>)]
         ELSE <<Cmd("flush", <<>>, "", <<>>)>>
    ELSE IF Truthy(snapshot.table)
         THEN IF snapshot.keyspaces = NoKeyspaces THEN <<>>
              ELSE [i \in 1..Len(snapshot.keyspaces) |->
                      Named(Cmd("snapshot", <<snapshot.keyspaces[i]>>,
                                snapshot.table, <<>>), snapshot)]
         ELSE <<Named(Cmd("snapshot", OrEmpty(snapshot.keyspaces), "", <<>>), snapshot)>>

\* `for keyspace in snapshot.keyspaces` of the table branch raises
\* TypeError when keyspaces is None, before any command is sent.
node_start_backup_raises(snapshot, incremental_backups) ==
    /\ ~incremental_backups
    /\ Truthy(snapshot.table)
    /\ snapshot.keyspaces = NoKeyspaces

\* BackupWorker.upload_node_backups: build the upload manifest on the
\* host, then put the files under <snapshot.base_path>/<host>.
upload_node_backups(snapshot, incremental_backups, host) ==
    LET prefix == Join(<<base_path(snapshot), <<host>>>>)
    IN  <<Agent(Named(Cmd("create-upload-manifest", OrEmpty(snapshot.keyspaces),
                          snapshot.table, <<>>), snapshot), incremental_backups),
          Agent(Cmd("put", <<>>, "", prefix), incremental_backups)>>

\* BackupWorker.clear_node_snapshot
clear_node_snapshot(snapshot) ==
    <<Named(Cmd("clearsnapshot", <<>>, "", <<>>), snapshot)>>

\* The task of one host in a phase.
NodeTask(phase, snapshot, incremental_backups, host) ==
    CASE phase = "start" -> node_start_backup(snapshot, incremental_backups)
      [] phase = "upload" -> upload_node_backups(snapshot, incremental_backups, host)
      [] phase = "clear" -> clear_node_snapshot(snapshot)

\* A task that raises before its first command has failed at once; one
\* with no command to send has succeeded at once.
NodeTaskRaises(phase, snapshot, incremental_backups) ==
    phase = "start" /\ node_start_backup_raises(snapshot, incremental_backups)
TaskTodo(phase, snapshot, incremental_backups, host) ==
    IF NodeTaskRaises(phase, snapshot, incremental_backups) THEN <<>>
    ELSE NodeTask(phase, snapshot, incremental_backups, host)
TaskState(phase, snapshot, incremental_backups, host) ==
    IF NodeTaskRaises(phase, snapshot, incremental_backups) THEN "failed"
    ELSE IF NodeTask(phase, snapshot, incremental_backups, host) = <<>> THEN "ok"
    ELSE "running"

Event(ph, ev) == [ph |-> ph, ev |-> ev]

\* fabric's execute() under settings(parallel=True): one task per host of
\* env.hosts, all started together.
Dispatch(phase, evs) ==
    /\ pc' = phase
    /\ todo' = [n \in Nodes |-> TaskTodo(phase, snap, op = "update_snapshot", n)]
    /\ nodeState' = [n \in Nodes |-> TaskState(phase, snap, op = "update_snapshot", n)]
    /\ events' = evs \o <<Event(phase, "begin")>>

ParallelPhases == {"start", "upload", "clear"}
WritePhases == {"ring", "manifest", "schema"}

\* Control passes to `to`: a fan-out, a write step, or the end of the run.
Enter(to, evs) ==
    IF to \in ParallelPhases THEN Dispatch(to, evs)
    ELSE /\ pc' = to
         /\ events' = IF to \in WritePhases THEN evs \o <<Event(to, "begin")>> ELSE evs
         /\ UNCHANGED <<todo, nodeState>>

Flow(to, pend) == [to |-> to, pending |-> pend]

\* snapshot() without its try/finally: a failed start or upload phase
\* raises at once.
snapshot_flow_no_finally(at, failed, pend, schema) ==
    CASE at = "start" ->
           IF failed THEN Flow("raised", FALSE) ELSE Flow("upload", FALSE)
      [] at = "upload" ->
           IF failed THEN Flow("raised", FALSE) ELSE Flow("clear", FALSE)
      [] at = "clear" ->
           IF failed THEN Flow("raised", FALSE) ELSE Flow("ring", FALSE)
      [] at = "ring" ->
           IF failed THEN Flow("raised", FALSE) ELSE Flow("manifest", FALSE)
      [] at = "manifest" ->
           IF failed THEN Flow("raised", FALSE)
           ELSE IF schema THEN Flow("schema", FALSE) ELSE Flow("done", FALSE)
      [] at = "schema" ->
           IF failed THEN Flow("raised", FALSE) ELSE Flow("done", FALSE)

\* snapshot() with a finally block that swallows the exception in flight
\* (a `return` inside it would).
snapshot_flow_swallow(at, failed, pend, schema) ==
    CASE at = "start" ->
           IF failed THEN Flow("clear", TRUE) ELSE Flow("upload", FALSE)
      [] at = "upload" ->
           IF failed THEN Flow("clear", TRUE) ELSE Flow("clear", FALSE)
      [] at = "clear" ->
           IF failed THEN Flow("raised", FALSE) ELSE Flow("ring", FALSE)
      [] at = "ring" ->
           IF failed THEN Flow("raised", FALSE) ELSE Flow("manifest", FALSE)
      [] at = "manifest" ->
           IF failed THEN Flow("raised", FALSE)
           ELSE IF schema THEN Flow("schema", FALSE) ELSE Flow("done", FALSE)
      [] at = "schema" ->
           IF failed THEN Flow("raised", FALSE) ELSE Flow("done", FALSE)

\* snapshot() with the manifest written before the ring description.
snapshot_flow_manifest_first(at, failed, pend, schema) ==
    CASE at = "start" ->
           IF failed THEN Flow("clear", TRUE) ELSE Flow("upload", FALSE)
      [] at = "upload" ->
           IF failed THEN Flow("clear", TRUE) ELSE Flow("clear", FALSE)
      [] at = "clear" ->
           IF failed \/ pend THEN Flow("raised", FALSE) ELSE Flow("manifest", FALSE)
      [] at = "manifest" ->
           IF failed THEN Flow("raised", FALSE) ELSE Flow("ring", FALSE)
      [] at = "ring" ->
           IF failed THEN Flow("raised", FALSE)
           ELSE IF schema THEN Flow("schema", FALSE) ELSE Flow("done", FALSE)
      [] at = "schema" ->
           IF failed THEN Flow("raised", FALSE) ELSE Flow("done", FALSE)

\* snapshot() with the try block around the upload phase alone.
snapshot_flow_try_upload_only(at, failed, pend, schema) ==
    CASE at = "start" ->
           IF failed THEN Flow("raised", FALSE) ELSE Flow("upload", FALSE)
      [] at = "upload" ->
           IF failed THEN Flow("clear", TRUE) ELSE Flow("clear", FALSE)
      [] at = "clear" ->
           IF failed \/ pend THEN Flow("raised", FALSE) ELSE Flow("ring", FALSE)
      [] at = "ring" ->
           IF failed THEN Flow("raised", FALSE) ELSE Flow("manifest", FALSE)
      [] at = "manifest" ->
           IF failed THEN Flow("raised", FALSE)
           ELSE IF schema THEN Flow("schema", FALSE) ELSE Flow("done", FALSE)
      [] at = "schema" ->
           IF failed THEN Flow("raised", FALSE) ELSE Flow("done", FALSE)

\* snapshot() with write_ring_description inside the try block, ahead of
\* the cleanup.
snapshot_flow_ring_in_try(at, failed, pend, schema) ==
    CASE at = "start" ->
           IF failed THEN Flow("clear", TRUE) ELSE Flow("upload", FALSE)
      [] at = "upload" ->
           IF failed THEN Flow("clear", TRUE) ELSE Flow("ring", FALSE)
      [] at = "ring" ->
           IF failed THEN Flow("clear", TRUE) ELSE Flow("clear", FALSE)
      [] at = "clear" ->
           IF failed \/ pend THEN Flow("raised", FALSE) ELSE Flow("manifest", FALSE)
      [] at = "manifest" ->
           IF failed THEN Flow("raised", FALSE)
           ELSE IF schema THEN Flow("schema", FALSE) ELSE Flow("done", FALSE)
      [] at = "schema" ->
           IF failed THEN Flow("raised", FALSE) ELSE Flow("done", FALSE)

\* snapshot() with a cleanup whose own failure is caught and dropped.
snapshot_flow_clear_failure_dropped(at, failed, pend, schema) ==
    CASE at = "start" ->
           IF failed THEN Flow("clear", TRUE) ELSE Flow("upload", FALSE)
      [] at = "upload" ->
           IF failed THEN Flow("clear", TRUE) ELSE Flow("clear", FALSE)
      [] at = "clear" ->
           IF pend THEN Flow("raised", FALSE) ELSE Flow("ring", FALSE)
      [] at = "ring" ->
           IF failed THEN Flow("raised", FALSE) ELSE Flow("manifest", FALSE)
      [] at = "manifest" ->
           IF failed THEN Flow("raised", FALSE)
           ELSE IF schema THEN Flow("schema", FALSE) ELSE Flow("done", FALSE)
      [] at = "schema" ->
           IF failed THEN Flow("raised", FALSE) ELSE Flow("done", FALSE)

\* BackupWorker.snapshot: where control goes when phase `at` ends, having
\* failed or not, with an exception of the try block in flight or not.
snapshot_flow(at, failed, pend, schema) ==
    CASE at = "start" ->
           IF failed THEN Flow("clear", TRUE) ELSE Flow("upload", FALSE)
      [] at = "upload" ->
           IF failed THEN Flow("clear", TRUE) ELSE Flow("clear", FALSE)
      [] at = "clear" ->
           IF failed \/ pend THEN Flow("raised", FALSE) ELSE Flow("ring", FALSE)
      [] at = "ring" ->
           IF failed THEN Flow("raised", FALSE) ELSE Flow("manifest", FALSE)
      [] at = "manifest" ->
           IF failed THEN Flow("raised", FALSE)
           ELSE IF schema THEN Flow("schema", FALSE) ELSE Flow("done", FALSE)
      [] at = "schema" ->
           IF failed THEN Flow("raised", FALSE) ELSE Flow("done", FALSE)

\* update_snapshot() written as a copy of snapshot(): cleanup and
\* manifest included.
update_snapshot_flow_like_snapshot(at, failed, pend, schema) ==
    CASE at = "start" ->
           IF failed THEN Flow("clear", TRUE) ELSE Flow("upload", FALSE)
      [] at = "upload" ->
           IF failed THEN Flow("clear", TRUE) ELSE Flow("clear", FALSE)
      [] at = "clear" ->
           IF failed \/ pend THEN Flow("raised", FALSE) ELSE Flow("ring", FALSE)
      [] at = "ring" ->
           IF failed THEN Flow("raised", FALSE) ELSE Flow("manifest", FALSE)
      [] at = "manifest" ->
           IF failed THEN Flow("raised", FALSE)
           ELSE IF schema THEN Flow("schema", FALSE) ELSE Flow("done", FALSE)
      [] at = "schema" ->
           IF failed THEN Flow("raised", FALSE) ELSE Flow("done", FALSE)

\* BackupWorker.update_snapshot: the same, without try/finally, cleanup
\* and manifest.
update_snapshot_flow(at, failed, pend, schema) ==
    CASE at = "start" ->
           IF failed THEN Flow("raised", FALSE) ELSE Flow("upload", FALSE)
      [] at = "upload" ->
           IF failed THEN Flow("raised", FALSE) ELSE Flow("ring", FALSE)
      [] at = "ring" ->
           IF failed THEN Flow("raised", FALSE)
           ELSE IF schema THEN Flow("schema", FALSE) ELSE Flow("done", FALSE)
      [] at = "schema" ->
           IF failed THEN Flow("raised", FALSE) ELSE Flow("done", FALSE)

RunFlow(at, failed) ==
    IF op = "snapshot" THEN snapshot_flow(at, failed, pending, backup_schema)
    ELSE update_snapshot_flow(at, failed, pending, backup_schema)

\* Phase `at` ends; the run moves on as its entry point says.
Leave(at, failed) ==
    LET f == RunFlow(at, failed)
    IN  /\ pending' = f.pending
        /\ Enter(f.to, events \o <<Event(at, IF failed THEN "fail" ELSE "ok")>>)

\* The call of BackupWorker.snapshot(snapshot).
snapshot ==
    /\ pc = "idle"
    /\ op' = "snapshot"
    /\ pc' = "start"
    /\ todo' = [n \in Nodes |-> TaskTodo("start", snap, FALSE, n)]
    /\ nodeState' = [n \in Nodes |-> TaskState("start", snap, FALSE, n)]
    /\ events' = <<Event("start", "begin")>>
    /\ UNCHANGED <<fileVars, utcnow, s3, hosts, snap, backup_schema, cmdLog, mainCmds,
                   pending, writes, schemaIdx, catalogVars>>

\* The call of BackupWorker.update_snapshot(snapshot).
update_snapshot ==
    /\ pc = "idle"
    /\ op' = "update_snapshot"
    /\ pc' = "start"
    /\ todo' = [n \in Nodes |-> TaskTodo("start", snap, TRUE, n)]
    /\ nodeState' = [n \in Nodes |-> TaskState("start", snap, TRUE, n)]
    /\ events' = <<Event("start", "begin")>>
    /\ UNCHANGED <<fileVars, utcnow, s3, hosts, snap, backup_schema, cmdLog, mainCmds,
                   pending, writes, schemaIdx, catalogVars>>

\* The S3 object a key names: boto sends the key through get_path.
Put(store, path, content) ==
    [k \in DOMAIN store \cup {get_path(path)} |->
        IF k = get_path(path) THEN content ELSE store[k]]

\* What a host's "put" leaves in the bucket: its files under the prefix.
agent_put(store, prefix) ==
    Put(store, Join(<<prefix, <<"data">>>>), [kind |-> "sstable"])

Ran(cmd, ok) == [cmd |-> cmd, ok |-> ok]

\* BackupWorker.execute_cmd in the task of host n: the next command of the
\* task runs, and exits zero or not; a failed command ends the task.
node_exec(n) ==
    /\ pc \in ParallelPhases
    /\ nodeState[n] = "running"
    /\ LET cmd == Head(todo[n])
           machine == execute_cmd(use_local, n)
       IN  /\ \/ /\ cmdLog' = [cmdLog EXCEPT ![n] = Append(@, Ran(cmd, TRUE))]
                 /\ todo' = [todo EXCEPT ![n] = Tail(@)]
                 /\ nodeState' = [nodeState EXCEPT ![n] =
                                    IF Len(todo[n]) = 1 THEN "ok" ELSE "running"]
                 /\ s3' = IF cmd.verb = "put" THEN agent_put(s3, cmd.prefix) ELSE s3
                 /\ manifest_file' = IF cmd.verb = "create-upload-manifest"
                                     THEN [manifest_file EXCEPT ![machine] = n]
                                     ELSE manifest_file
              \/ /\ cmdLog' = [cmdLog EXCEPT ![n] = Append(@, Ran(cmd, FALSE))]
                 /\ todo' = [todo EXCEPT ![n] = <<>>]
                 /\ nodeState' = [nodeState EXCEPT ![n] = "failed"]
                 /\ s3' = s3
                 /\ manifest_file' = manifest_file
           /\ put_read' = IF cmd.verb = "put"
                          THEN [put_read EXCEPT ![n] = manifest_file[machine]]
                          ELSE put_read
    /\ UNCHANGED <<use_local, utcnow, hosts, op, pc, snap, backup_schema, mainCmds, pending,
                   events, writes, schemaIdx, catalogVars>>

\* execute() returning as soon as one task has ended.
join_first_done ==
    /\ pc \in ParallelPhases
    /\ \E n \in Nodes : nodeState[n] \in {"ok", "failed"}
    /\ Leave(pc, \E n \in Nodes : nodeState[n] = "failed")
    /\ UNCHANGED <<fileVars, utcnow, s3, hosts, op, snap, backup_schema, cmdLog, mainCmds,
                   writes, schemaIdx, catalogVars>>

\* execute() returns once every task has ended, and aborts the caller when
\* one of them failed.
join ==
    /\ pc \in ParallelPhases
    /\ \A n \in Nodes : nodeState[n] \in {"ok", "failed"}
    /\ Leave(pc, \E n \in Nodes : nodeState[n] = "failed")
    /\ UNCHANGED <<fileVars, utcnow, s3, hosts, op, snap, backup_schema, cmdLog, mainCmds,
                   writes, schemaIdx, catalogVars>>

\* BackupWorker.write_on_S3: the object is stored, or the request fails.
write_on_S3(path, content, stored) ==
    /\ s3' = IF stored THEN Put(s3, path, content) ELSE s3
    /\ writes' = IF stored THEN Append(writes, get_path(path)) ELSE writes

\* BackupWorker.write_ring_description: `nodetool ring` on env.hosts[0],
\* then the text is stored at <snapshot.base_path>/ring.
write_ring_description ==
    /\ pc = "ring"
    /\ mainCmds' = Append(mainCmds, Cmd("ring", <<>>, "", <<>>))
    /\ \E outcome \in {"stored", "command failed", "write failed"} :
          /\ write_on_S3(Join(<<base_path(snap), <<"ring">>>>),
                         [kind |-> "ring"], outcome = "stored")
          /\ Leave("ring", outcome # "stored")
    /\ UNCHANGED <<fileVars, utcnow, hosts, op, snap, backup_schema, cmdLog, schemaIdx,
                   catalogVars>>

\* BackupWorker.write_snapshot_manifest
write_snapshot_manifest ==
    /\ pc = "manifest"
    /\ \E stored \in BOOLEAN :
          /\ write_on_S3(Join(<<base_path(snap), <<"manifest.json">>>>),
                         dump_manifest_file(snap), stored)
          /\ Leave("manifest", ~stored)
    /\ UNCHANGED <<fileVars, utcnow, hosts, op, snap, backup_schema, cmdLog, mainCmds,
                   schemaIdx, catalogVars>>

\* "schema_{!s}.cql".format(ks), by keyspace.
SchemaFileNames == <<"schema_ks1.cql", "schema_ks2.cql", "schema_ks3.cql",
                     "schema_ks4.cql">>
\* The schema path built without the keyspace in it.
schema_file_combined(ks) == "schema.cql"

schema_file(ks) ==
    SchemaFileNames[CHOOSE i \in DOMAIN KeyspaceNames : KeyspaceNames[i] = ks]

\* BackupWorker.write_schema, one turn of its loop (or its else branch):
\* cqlsh on env.hosts[0] describes the keyspace, the text is stored.
write_schema ==
    /\ pc = "schema"
    /\ LET all == ~HasKeyspaces(snap.keyspaces)
           ks == IF all THEN <<>> ELSE <<snap.keyspaces[schemaIdx]>>
           file == IF all THEN "schema.cql" ELSE schema_file(snap.keyspaces[schemaIdx])
           last == all \/ schemaIdx = Len(snap.keyspaces)
       IN  /\ mainCmds' = Append(mainCmds, Cmd("describe", ks, "", <<>>))
           /\ \E outcome \in {"stored", "command failed", "write failed"} :
                 /\ write_on_S3(Join(<<base_path(snap), <<file>>>>),
                                [kind |-> "schema"], outcome = "stored")
                 /\ IF outcome # "stored" THEN Leave("schema", TRUE)
                    ELSE IF last THEN Leave("schema", FALSE)
                    ELSE UNCHANGED <<pc, pending, events, todo, nodeState>>
                 /\ schemaIdx' = IF outcome = "stored" /\ ~last
                                 THEN schemaIdx + 1 ELSE schemaIdx
    /\ UNCHANGED <<fileVars, utcnow, hosts, op, snap, backup_schema, cmdLog, catalogVars>>

\* --------------------------------------------------- SnapshotCollection
\* str.endswith('/')
endswith_slash(path) == Len(path) > 0 /\ path[Len(path)] = "/"

\* bucket.list(prefix, delimiter='/'): the names S3 reports under the
\* prefix, a key below a further delimiter rolled up into the common
\* prefix that ends with that delimiter.
RECURSIVE UpToSlash(_)
UpToSlash(rest) ==
    IF rest = <<>> THEN <<>>
    ELSE IF Head(rest) = "/" THEN <<"/">>
    ELSE <<Head(rest)>> \o UpToSlash(Tail(rest))

bucket_list(store, prefix) ==
    {prefix \o UpToSlash(SubSeq(k, Len(prefix) + 1, Len(k))) :
        k \in {x \in DOMAIN store : IsPrefix(prefix, x)}}

\* All the orders in which a set can be listed.
RECURSIVE Orders(_)
Orders(S) ==
    IF S = {} THEN {<<>>}
    ELSE UNION {{<<x>> \o o : o \in Orders(S \ {x})} : x \in S}

\* The listings bucket.list may give: the folder object of the prefix,
\* when there is one, then the other names in any order (where the folder
\* object stands does not matter, _read_s3 drops it first).
Listings(store, prefix) ==
    LET names == bucket_list(store, prefix)
    IN  {(IF prefix \in names THEN <<prefix>> ELSE <<>>) \o o :
            o \in Orders(names \ {prefix})}

\* sorted(xs, reverse=True) over Snapshot.__cmp__: stable, newest first.
\* Every element of a list of two or more takes part in a comparison,
\* and a comparison raises when one of its two names is not a date.
sorted_raises(xs) ==
    Len(xs) >= 2 /\ \E i \in DOMAIN xs : strptime_raises(xs[i].name)

RECURSIVE InsertDesc(_, _)
InsertDesc(x, xs) ==
    IF xs = <<>> THEN <<x>>
    ELSE IF cmp(Head(xs), x) < 0 THEN <<x>> \o xs
    ELSE <<Head(xs)>> \o InsertDesc(x, Tail(xs))

\* sorted(xs) without reverse=True: oldest first.
RECURSIVE InsertAsc(_, _)
InsertAsc(x, xs) ==
    IF xs = <<>> THEN <<x>>
    ELSE IF cmp(x, Head(xs)) < 0 THEN <<x>> \o xs
    ELSE <<Head(xs)>> \o InsertAsc(x, Tail(xs))

RECURSIVE sorted_plain(_)
sorted_plain(xs) ==
    IF Len(xs) <= 1 THEN xs
    ELSE InsertAsc(xs[Len(xs)], sorted_plain(SubSeq(xs, 1, Len(xs) - 1)))

RECURSIVE sorted_reverse(_)
sorted_reverse(xs) ==
    IF Len(xs) <= 1 THEN xs
    ELSE InsertDesc(xs[Len(xs)], sorted_reverse(SubSeq(xs, 1, Len(xs) - 1)))

\* The loop of _read_s3 with `break` where the code has `continue`: the
\* first candidate that cannot be read ends the loop.
RECURSIVE read_manifests_break(_, _, _)
read_manifests_break(store, snap_paths, now) ==
    IF snap_paths = <<>> THEN <<>>
    ELSE LET manifest_path == Join(<<Head(snap_paths), <<"manifest.json">>>>)
             key == get_path(manifest_path)
         IN  IF key \notin DOMAIN store THEN <<>>
             ELSE IF load_manifest_file_raises(store[key]) THEN <<>>
             ELSE <<load_manifest_file(store[key], Bucket, now)>>
                    \o read_manifests_break(store, Tail(snap_paths), now)

\* The loop of _read_s3 over snap_paths: a candidate whose manifest is
\* not in the bucket, or does not load, is skipped.
RECURSIVE read_manifests(_, _, _)
read_manifests(store, snap_paths, now) ==
    IF snap_paths = <<>> THEN <<>>
    ELSE LET manifest_path == Join(<<Head(snap_paths), <<"manifest.json">>>>)
             key == get_path(manifest_path)
             rest == read_manifests(store, Tail(snap_paths), now)
         IN  IF key \notin DOMAIN store THEN rest
             ELSE IF load_manifest_file_raises(store[key]) THEN rest
             ELSE <<load_manifest_file(store[key], Bucket, now)>> \o rest

\* The guard of _read_s3: `if self.snapshots: return`.
is_populated(isNone, list) == ~isNone /\ Len(list) > 0

list_prefix(path) == IF endswith_slash(path) THEN path ELSE path \o <<"/">>

\* SnapshotCollection._read_s3 with the bucket listing in order `listing`:
\* the list it leaves in self.snapshots and whether the sort raised.
read_s3(store, path, listing, now) ==
    LET prefix == list_prefix(path)
        snap_paths == SelectSeq(listing, LAMBDA x : x # prefix)
        loaded == read_manifests(store, snap_paths, now)
    IN  IF sorted_raises(loaded)
        THEN [raised |-> TRUE, snapshots |-> loaded]
        ELSE [raised |-> FALSE, snapshots |-> sorted_reverse(loaded)]

\* What a query gives its caller: an exception, or a value (a list of
\* snapshots, one snapshot, or nothing found).
Raise(exc) == [kind |-> "raise", exc |-> exc, val |-> <<>>]
Result(kind, val) == [kind |-> kind, exc |-> "", val |-> val]
\* The arguments of a query; a query that takes none has NoArgs.
Args(hs, keyspaces, table, name) ==
    [hosts |-> hs, keyspaces |-> keyspaces, table |-> table, name |-> name]
NoArgs == Args(<<>>, <<>>, None, "")
Asked(query, args, outcome) ==
    [query |-> query, args |-> args,
     kind |-> outcome.kind, exc |-> outcome.exc, val |-> outcome.val]
NoResult == Asked("", NoArgs, Result("none", <<>>))

\* What the call of _read_s3 that opens a query can leave: self.snapshots
\* as it is when the guard holds, else what read_s3 builds from one of the
\* listings of the bucket.
ReadOutcomes ==
    IF is_populated(snapshotsIsNone, snapshots)
    THEN {[raised |-> FALSE, snapshots |-> snapshots]}
    ELSE {read_s3(s3, collection_base_path, listing, utcnow) :
            listing \in Listings(s3, list_prefix(collection_base_path))}

\* A query whose _read_s3 left `r` and which answers `outcome`: an
\* exception of the sort reaches the caller in place of the answer.
Query(query, args, r, outcome) ==
    /\ queries < MaxQueries
    /\ queries' = queries + 1
    /\ IF is_populated(snapshotsIsNone, snapshots)
       THEN UNCHANGED <<snapshots, snapshotsIsNone, listings, listed, populations>>
       ELSE /\ snapshots' = r.snapshots
            /\ snapshotsIsNone' = FALSE
            /\ listings' = listings + 1
            /\ listed' = s3
            /\ populations' = populations + 1
    /\ result' = Asked(query, args,
                        IF r.raised THEN Raise("ValueError") ELSE outcome)
    /\ UNCHANGED <<fileVars, utcnow, s3, hosts, workerVars, collection_base_path, changes>>

\* The names callers ask for.
QueriedNames == {DirNames[1], DirNames[2], DirNames[5]}

\* SnapshotCollection.__iter__
iter_answer(list) == Result("list", list)
iter ==
    \E r \in ReadOutcomes :
        Query("__iter__", NoArgs, r, iter_answer(r.snapshots))

\* SnapshotCollection.get_latest: self.snapshots[0], an IndexError on [].
get_latest_answer(list) ==
    IF Len(list) = 0 THEN Raise("IndexError") ELSE Result("snapshot", <<list[1]>>)
get_latest ==
    \E r \in ReadOutcomes :
        Query("get_latest", NoArgs, r, get_latest_answer(r.snapshots))

\* SnapshotCollection.get_snapshot_by_name: the first of that name, or the
\* empty list filter() gave.
get_snapshot_by_name_answer(list, name) ==
    LET found == SelectSeq(list, LAMBDA x : x.name = name)
    IN  IF found = <<>> THEN Result("absent", <<>>) ELSE Result("snapshot", <<found[1]>>)
get_snapshot_by_name ==
    \E name \in QueriedNames, r \in ReadOutcomes :
        Query("get_snapshot_by_name", Args(<<>>, <<>>, None, name), r,
              get_snapshot_by_name_answer(r.snapshots, name))

\* SnapshotCollection.get_snapshot_for: the first snapshot equal in all
\* four fields, or None.
get_snapshot_for_answer(list, hs, keyspaces, table, name) ==
    LET found == SelectSeq(list, LAMBDA x :
                     ~(x.hosts # hs) /\ ~(x.keyspaces # keyspaces)
                     /\ ~(x.table # table) /\ ~(x.name # name))
    IN  IF found = <<>> THEN Result("absent", <<>>) ELSE Result("snapshot", <<found[1]>>)
get_snapshot_for ==
    \E hs \in {<<HostNames[1]>>, <<HostNames[1], HostNames[2]>>},
       keyspaces \in {<<KeyspaceNames[1]>>, <<KeyspaceNames[1], KeyspaceNames[2]>>},
       table \in TableNames, name \in QueriedNames \ {DirNames[5]},
       r \in ReadOutcomes :
        Query("get_snapshot_for", Args(hs, keyspaces, table, name), r,
              get_snapshot_for_answer(r.snapshots, hs, keyspaces, table, name))

\* ----------------------------------------------------------------- Init
Prefixes(seq, max) == {SubSeq(seq, 1, k) : k \in 0..max}

EmptyBucket == [k \in {} |-> [kind |-> "none"]]

\* No host has written or read an upload manifest yet.
FilesUnused ==
    /\ manifest_file = [m \in Machines |-> None]
    /\ put_read = [n \in Nodes |-> None]

CatalogUnused ==
    /\ collection_base_path = BasePath
    /\ snapshots = <<>>
    /\ snapshotsIsNone = TRUE
    /\ listings = 0
    /\ listed = EmptyBucket
    /\ populations = 0
    /\ queries = 0
    /\ result = NoResult
    /\ changes = 0

\* A BackupWorker about to back up a Snapshot made today for env.hosts;
\* the bucket is empty or already holds the manifest of that Snapshot.
Init ==
    /\ utcnow \in {Calendar[1], Calendar[2]}
    /\ hosts \in Prefixes(HostNames, NumNodes) \ {<<>>}
    /\ backup_schema \in BOOLEAN
    /\ \E keyspaces \in Prefixes(KeyspaceNames, MaxKeyspaces) \cup {NoKeyspaces},
          table \in TableNames :
          snap = Snapshot(BasePath, Bucket, hosts, keyspaces, table, utcnow)
    /\ s3 \in {EmptyBucket,
               Put(EmptyBucket, Join(<<base_path(snap), <<"manifest.json">>>>),
                   dump_manifest_file(snap))}
    /\ op = "none"
    /\ pc = "idle"
    /\ nodeState = [n \in Nodes |-> "idle"]
    /\ todo = [n \in Nodes |-> <<>>]
    /\ cmdLog = [n \in Nodes |-> <<>>]
    /\ mainCmds = <<>>
    /\ pending = FALSE
    /\ events = <<>>
    /\ writes = <<>>
    /\ schemaIdx = 1
    /\ use_local \in BOOLEAN
    /\ FilesUnused
    /\ CatalogUnused

\* What a bucket may hold for a backup directory besides the manifest a
\* full backup of that name wrote: nothing but data, a manifest that is
\* not JSON, or one that lacks a key; each directory is broken in one way.
BrokenKinds == <<"no manifest", "not json", "no table key", "not json", "no manifest">>

StoredSnapshot(dir) ==
    [Snapshot(BasePath, Bucket, <<HostNames[1]>>, <<KeyspaceNames[1]>>,
              IF dir \in {DirNames[2], DirNames[4]} THEN "cf1" ELSE None,
              Calendar[1])
        EXCEPT !.name = dir]

Candidate(store, dir, kind) ==
    LET root == Join(<<BasePath, <<dir>>>>)
        at == Join(<<root, <<"manifest.json">>>>)
        full == dump_manifest_file(StoredSnapshot(dir))
    IN  CASE kind = "no manifest" -> Put(store, Join(<<root, <<"ring">>>>), [kind |-> "ring"])
          [] kind = "not json" -> Put(store, at, [kind |-> "garbage"])
          [] kind = "no table key" ->
               Put(store, at, [kind |-> "json",
                               obj |-> [f \in ManifestFields \ {"table"} |-> full.obj[f]]])
          [] kind = "manifest" -> Put(store, at, full)

RECURSIVE Stored(_, _)
Stored(choice, i) ==
    IF i = 0 THEN Put(EmptyBucket, BasePath \o <<"/">>, [kind |-> "folder"])
    ELSE IF choice[i] = "absent" THEN Stored(choice, i - 1)
    ELSE Candidate(Stored(choice, i - 1), DirNames[i],
                   IF choice[i] = "broken" THEN BrokenKinds[i] ELSE choice[i])

\* A new SnapshotCollection over a bucket that holds the folder object of
\* the base path and at most MaxCandidates backup directories.
CatalogInit ==
    /\ utcnow = Calendar[1]
    /\ hosts = <<HostNames[1]>>
    /\ backup_schema = FALSE
    /\ snap = Snapshot(BasePath, Bucket, hosts, <<>>, None, utcnow)
    /\ \E choice \in [DOMAIN DirNames -> {"absent", "manifest", "broken"}] :
          /\ Cardinality({i \in DOMAIN choice : choice[i] # "absent"}) <= MaxCandidates
          /\ s3 = Stored(choice, Len(DirNames))
    /\ op = "none"
    /\ pc = "idle"
    /\ nodeState = [n \in Nodes |-> "idle"]
    /\ todo = [n \in Nodes |-> <<>>]
    /\ cmdLog = [n \in Nodes |-> <<>>]
    /\ mainCmds = <<>>
    /\ pending = FALSE
    /\ events = <<>>
    /\ writes = <<>>
    /\ schemaIdx = 1
    /\ use_local = FALSE
    /\ FilesUnused
    /\ collection_base_path \in {BasePath, BasePath \o <<"/">>}
    /\ snapshots = <<>>
    /\ snapshotsIsNone = TRUE
    /\ listings = 0
    /\ listed = EmptyBucket
    /\ populations = 0
    /\ queries = 0
    /\ result = NoResult
    /\ changes = 0

\* Another process changes the bucket: retention removes a backup
\* directory, or a backup of that day stores its manifest.
ChangedDirs == {DirNames[1], DirNames[2]}

storage_changes ==
    /\ changes < MaxChanges
    /\ changes' = changes + 1
    /\ \E dir \in ChangedDirs :
          LET root == Join(<<BasePath, <<dir>>>>) \o <<"/">>
          IN  s3' = IF \E k \in DOMAIN s3 : IsPrefix(root, k)
                    THEN [k \in {x \in DOMAIN s3 : ~IsPrefix(root, x)} |-> s3[k]]
                    ELSE Candidate(s3, dir, "manifest")
    /\ UNCHANGED <<fileVars, utcnow, hosts, workerVars, collection_base_path, snapshots,
                   snapshotsIsNone, listings, listed, populations, queries, result>>

CatalogNext ==
    \/ iter
    \/ get_latest
    \/ get_snapshot_by_name
    \/ get_snapshot_for
    \/ storage_changes

CatalogSpec == CatalogInit /\ [][CatalogNext]_vars

Next ==
    \/ snapshot
    \/ update_snapshot
    \/ \E n \in Nodes : node_exec(n)
    \/ join
    \/ write_ring_description
    \/ write_snapshot_manifest
    \/ write_schema

Spec == Init /\ [][Next]_vars

\* ------------------------------------------------ catalog after a backup
\* A full backup of a Snapshot whose base path was given with or without
\* a trailing slash, into a bucket that is empty or holds an older backup;
\* once it is over, a new SnapshotCollection over the bucket, its base
\* path given either way, is iterated.
ListAfterBackupInit ==
    /\ utcnow = Calendar[1]
    /\ hosts \in Prefixes(HostNames, NumNodes) \ {<<>>}
    /\ backup_schema \in BOOLEAN
    /\ \E path \in {BasePath, BasePath \o <<"/">>},
          keyspaces \in Prefixes(KeyspaceNames, MaxKeyspaces) \cup {NoKeyspaces},
          table \in TableNames :
          snap = Snapshot(path, Bucket, hosts, keyspaces, table, utcnow)
    /\ s3 \in {EmptyBucket, Candidate(EmptyBucket, DirNames[2], "manifest")}
    /\ op = "none"
    /\ pc = "idle"
    /\ nodeState = [n \in Nodes |-> "idle"]
    /\ todo = [n \in Nodes |-> <<>>]
    /\ cmdLog = [n \in Nodes |-> <<>>]
    /\ mainCmds = <<>>
    /\ pending = FALSE
    /\ events = <<>>
    /\ writes = <<>>
    /\ schemaIdx = 1
    /\ use_local = FALSE
    /\ FilesUnused
    /\ collection_base_path \in {BasePath, BasePath \o <<"/">>}
    /\ snapshots = <<>>
    /\ snapshotsIsNone = TRUE
    /\ listings = 0
    /\ listed = EmptyBucket
    /\ populations = 0
    /\ queries = 0
    /\ result = NoResult
    /\ changes = 0

list_after_backup ==
    /\ pc = "done"
    /\ iter

ListAfterBackupNext ==
    \/ snapshot
    \/ \E n \in Nodes : node_exec(n)
    \/ join
    \/ write_ring_description
    \/ write_snapshot_manifest
    \/ write_schema
    \/ list_after_backup

ListAfterBackupSpec == ListAfterBackupInit /\ [][ListAfterBackupNext]_vars

\* ----------------------------------------------------- manifest round trip
\* A descriptor of any name and scope is dumped, the manifest is loaded on
\* some later day, and what was loaded is dumped again. `snap` is the
\* descriptor, s3 holds its manifest, `snapshots` what was loaded and
\* `listed` the manifest of what was loaded.
BasePaths == {BasePath, BasePath \o <<"/", "daily">>}

RoundTripInit ==
    /\ utcnow \in {Calendar[1], Calendar[2]}
    /\ hosts = <<HostNames[1]>>
    /\ backup_schema = FALSE
    /\ \E path \in BasePaths, hs \in Prefixes(HostNames, NumNodes),
          keyspaces \in Prefixes(KeyspaceNames, MaxKeyspaces) \cup {NoKeyspaces},
          table \in TableNames \cup {""}, name \in Range(DirNames),
          created \in Range(Calendar) :
          snap = [Snapshot(path, Bucket, hs, keyspaces, table, created)
                    EXCEPT !.name = name]
    /\ s3 = EmptyBucket
    /\ op = "round trip"
    /\ pc = "made"
    /\ nodeState = [n \in Nodes |-> "idle"]
    /\ todo = [n \in Nodes |-> <<>>]
    /\ cmdLog = [n \in Nodes |-> <<>>]
    /\ mainCmds = <<>>
    /\ pending = FALSE
    /\ events = <<>>
    /\ writes = <<>>
    /\ schemaIdx = 1
    /\ use_local = FALSE
    /\ FilesUnused
    /\ CatalogUnused

ManifestPath(x) == Join(<<base_path(x), <<"manifest.json">>>>)

\* snapshot.dump_manifest_file(), stored as write_snapshot_manifest does.
dump ==
    /\ pc = "made"
    /\ pc' = "dumped"
    /\ s3' = Put(s3, ManifestPath(snap), dump_manifest_file(snap))
    /\ UNCHANGED <<fileVars, utcnow, hosts, op, snap, backup_schema, nodeState, todo, cmdLog,
                   mainCmds, pending, events, writes, schemaIdx, catalogVars>>

\* Snapshot.load_manifest_file(data, s3_bucket) of what was stored.
load ==
    /\ pc = "dumped"
    /\ pc' = "loaded"
    /\ ~load_manifest_file_raises(s3[get_path(ManifestPath(snap))])
    /\ snapshots' = <<load_manifest_file(s3[get_path(ManifestPath(snap))],
                                         Bucket, utcnow)>>
    /\ snapshotsIsNone' = FALSE
    /\ UNCHANGED <<fileVars, utcnow, s3, hosts, op, snap, backup_schema, nodeState, todo,
                   cmdLog, mainCmds, pending, events, writes, schemaIdx,
                   collection_base_path, listings, listed, populations, queries,
                   result, changes>>

\* dump_manifest_file() of the loaded descriptor, stored likewise.
dump_again ==
    /\ pc = "loaded"
    /\ pc' = "dumped again"
    /\ listed' = Put(EmptyBucket, ManifestPath(snapshots[1]),
                     dump_manifest_file(snapshots[1]))
    /\ UNCHANGED <<fileVars, utcnow, s3, hosts, op, snap, backup_schema, nodeState, todo,
                   cmdLog, mainCmds, pending, events, writes, schemaIdx,
                   collection_base_path, snapshots, snapshotsIsNone, listings,
                   populations, queries, result, changes>>

RoundTripNext ==
    \/ dump
    \/ load
    \/ dump_again

RoundTripSpec == RoundTripInit /\ [][RoundTripNext]_vars

\* ============================================================== claims
\* Helpers over the logs.
Has(seq, x) == \E i \in DOMAIN seq : seq[i] = x
Count(seq, x) == Cardinality({i \in DOMAIN seq : seq[i] = x})
IndexOf(seq, x) == CHOOSE i \in DOMAIN seq : seq[i] = x
Ended(ph) == Has(events, Event(ph, "ok")) \/ Has(events, Event(ph, "fail"))
ClearCommands(n) ==
    Cardinality({i \in DOMAIN cmdLog[n] : cmdLog[n][i].cmd.verb = "clearsnapshot"})

ManifestKey == get_path(Join(<<base_path(snap), <<"manifest.json">>>>))
RingKey == get_path(Join(<<base_path(snap), <<"ring">>>>))
SchemaKeys ==
    {get_path(Join(<<base_path(snap), <<f>>>>)) :
        f \in Range(SchemaFileNames) \cup {"schema.cql"}}

\* C1: in a full backup whose upload phase failed, clear_cluster_snapshot
\* is invoked exactly once: it begins right after the upload phase ended,
\* it is never begun a second time, and the run has raised only after the
\* cleanup ended, every host having been sent clearsnapshot once.
C1_CleanupOnceAfterFailedUpload ==
    (op = "snapshot" /\ Has(events, Event("upload", "fail"))) =>
        /\ Count(events, Event("clear", "begin")) = 1
        /\ IndexOf(events, Event("clear", "begin"))
             = IndexOf(events, Event("upload", "fail")) + 1
        /\ \A n \in Nodes : ClearCommands(n) <= 1
        /\ pc \in {"clear", "raised"}
        /\ pc = "raised" =>
             /\ Ended("clear")
             /\ \A n \in Nodes : ClearCommands(n) = 1

C1_Witness ==
    /\ op = "snapshot"
    /\ pc = "raised"
    /\ Has(events, Event("upload", "fail"))
    /\ Len(hosts) = NumNodes
    /\ \E n \in Nodes : \A i \in DOMAIN cmdLog[n] : cmdLog[n][i].ok

\* The commands of a host's tasks that must have exited zero before it is
\* through the start-backup and upload phases of a full backup.
FullBackupCommands(n) ==
    node_start_backup(snap, FALSE) \o upload_node_backups(snap, FALSE, n)

NodeBackedUp(n) ==
    /\ Len(cmdLog[n]) >= Len(FullBackupCommands(n))
    /\ \A i \in DOMAIN FullBackupCommands(n) :
          cmdLog[n][i] = Ran(FullBackupCommands(n)[i], TRUE)

\* C2: in a full backup manifest.json is written only when the
\* start-backup and the upload phase both succeeded, every command of both
\* having exited zero on every host; once one of them failed, no manifest
\* is written.
C2_ManifestOnlyAfterSuccess ==
    op = "snapshot" =>
        /\ Has(writes, ManifestKey) =>
              /\ Has(events, Event("start", "ok"))
              /\ Has(events, Event("upload", "ok"))
              /\ \A n \in Nodes : NodeBackedUp(n)
        /\ (Has(events, Event("start", "fail")) \/ Has(events, Event("upload", "fail")))
              => ~Has(writes, ManifestKey) /\ pc \notin {"ring", "manifest", "schema", "done"}

C2_Witness ==
    /\ op = "snapshot"
    /\ Has(writes, ManifestKey)
    /\ Len(hosts) = NumNodes

\* The phases of a successful full backup, each begun and ended once.
RECURSIVE Bracketed(_)
Bracketed(phases) ==
    IF phases = <<>> THEN <<>>
    ELSE <<Event(Head(phases), "begin"), Event(Head(phases), "ok")>>
           \o Bracketed(Tail(phases))

FullBackupPhases ==
    <<"start", "upload", "clear", "ring", "manifest">>
      \o (IF backup_schema THEN <<"schema">> ELSE <<>>)

\* C3: a full backup that succeeded ran start-backup, upload, cleanup,
\* ring write, manifest write and (when enabled) schema write in that
\* order, each once; and at any moment of a full backup a phase begins
\* only right after the one before it ended, and no phase begins twice.
C3_PhaseOrder ==
    op = "snapshot" =>
        /\ pc = "done" => events = Bracketed(FullBackupPhases)
        /\ \A i \in DOMAIN events :
              /\ (events[i].ev = "begin" /\ i > 1) => events[i - 1].ev \in {"ok", "fail"}
              /\ events[i].ev # "begin" =>
                    i > 1 /\ events[i - 1] = Event(events[i].ph, "begin")
              /\ \A j \in DOMAIN events : events[j] = events[i] => j = i

C3_Witness ==
    /\ op = "snapshot"
    /\ pc = "done"
    /\ backup_schema
    /\ Len(hosts) = NumNodes
    /\ Len(snap.keyspaces) = MaxKeyspaces

Last(seq) == seq[Len(seq)]
DescribeCommands == {i \in DOMAIN mainCmds : mainCmds[i].verb = "describe"}

\* C6 as stated: in a full backup the manifest write is the last step;
\* once manifest.json is written the run writes nothing more and runs no
\* further command, so the ring and, when schema backup is enabled, the
\* schema are stored by then.
C6_ManifestWrittenLast ==
    (op = "snapshot" /\ Has(writes, ManifestKey)) =>
        /\ Last(writes) = ManifestKey
        /\ DescribeCommands = {}
        /\ pc \in {"done", "raised"}
        /\ RingKey \in DOMAIN s3
        /\ backup_schema => \E k \in SchemaKeys : k \in DOMAIN s3

\* C6 amended: in a full backup the manifest is written after the ring
\* description and is the last write but for those of write_schema: once
\* manifest.json is written no host task runs or is started, the ring is
\* stored, and every later write and command is a schema file and the
\* cqlsh describe that produced it; with schema backup disabled the
\* manifest is the last write and the run is over.
C6_ManifestLastButSchema ==
    (op = "snapshot" /\ Has(writes, ManifestKey)) =>
        /\ Len(writes) >= 2
        /\ writes[1] = RingKey
        /\ writes[2] = ManifestKey
        /\ \A i \in DOMAIN writes : i > 2 => writes[i] \in SchemaKeys
        /\ RingKey \in DOMAIN s3
        /\ \A n \in Nodes : nodeState[n] # "running"
        /\ pc \in {"schema", "done", "raised"}
        /\ Len(mainCmds) >= 1
        /\ mainCmds[1].verb = "ring"
        /\ \A i \in DOMAIN mainCmds : i > 1 => mainCmds[i].verb = "describe"
        /\ ~backup_schema => Last(writes) = ManifestKey /\ pc = "done" /\ Len(mainCmds) = 1

C6_Witness ==
    /\ op = "snapshot"
    /\ pc = "done"
    /\ backup_schema
    /\ Len(writes) > 2
    /\ writes[2] = ManifestKey

\* C7: in a full backup whose start-backup phase failed the upload phase
\* is never begun, cleanup is begun right after and once, and the run has
\* raised only after the cleanup ended; a failed ring, manifest or schema
\* write is the last thing the run did: it has raised, nothing was begun
\* again, and cleanup ran once, before.
C7_FailureHandling ==
    op = "snapshot" =>
        /\ Has(events, Event("start", "fail")) =>
              /\ ~Has(events, Event("upload", "begin"))
              /\ \A n \in Nodes : \A i \in DOMAIN cmdLog[n] :
                    cmdLog[n][i].cmd.verb \in {"snapshot", "clearsnapshot"}
              /\ Count(events, Event("clear", "begin")) = 1
              /\ events[3] = Event("clear", "begin")
              /\ pc \in {"clear", "raised"}
              /\ pc = "raised" => Ended("clear") /\ Len(events) = 4
              /\ writes = <<>>
        /\ \A w \in WritePhases : Has(events, Event(w, "fail")) =>
              /\ pc = "raised"
              /\ Last(events) = Event(w, "fail")
              /\ \A ph \in ParallelPhases \cup WritePhases :
                    Count(events, Event(ph, "begin")) <= 1
              /\ Count(events, Event("clear", "ok")) = 1
              /\ IndexOf(events, Event("clear", "ok")) < IndexOf(events, Event(w, "begin"))
              /\ \A n \in Nodes : ClearCommands(n) = 1

C7_Witness ==
    /\ op = "snapshot"
    /\ pc = "raised"
    /\ Has(events, Event("start", "fail"))
    /\ Has(events, Event("clear", "ok"))
    /\ Len(hosts) = NumNodes

C7_WitnessWriteFailed ==
    /\ op = "snapshot"
    /\ pc = "raised"
    /\ Has(events, Event("schema", "fail"))
    /\ Len(writes) > 2

\* C9: an incremental backup never runs the cleanup phase and never writes
\* a manifest: no host is sent clearsnapshot, manifest.json is not written
\* and stays as it was found, and what write_on_S3 writes is the ring
\* description and, only when schema backup is enabled, schema files, all
\* of it after the flush and upload phases succeeded.
C9_IncrementalFrame ==
    op = "update_snapshot" =>
        /\ \A n \in Nodes : ClearCommands(n) = 0
        /\ \A i \in DOMAIN events : events[i].ph \notin {"clear", "manifest"}
        /\ ~Has(writes, ManifestKey)
        /\ ManifestKey \in DOMAIN s3 => s3[ManifestKey] = dump_manifest_file(snap)
        /\ \A i \in DOMAIN writes :
              /\ writes[i] \in {RingKey} \cup (IF backup_schema THEN SchemaKeys ELSE {})
              /\ i = 1 <=> writes[i] = RingKey
        /\ (writes # <<>> \/ mainCmds # <<>>) =>
              /\ Has(events, Event("start", "ok"))
              /\ Has(events, Event("upload", "ok"))
              /\ \A n \in Nodes : \A i \in DOMAIN cmdLog[n] : cmdLog[n][i].ok

C9_Witness ==
    /\ op = "update_snapshot"
    /\ pc = "done"
    /\ backup_schema
    /\ Len(writes) > 2
    /\ ManifestKey \in DOMAIN s3
    /\ Len(hosts) = NumNodes

C9_WitnessFailed ==
    /\ op = "update_snapshot"
    /\ pc = "raised"
    /\ Has(events, Event("upload", "fail"))

\* What the bucket holds, read off its keys: the backup directories under
\* the base path, and for each the manifest stored in it, if any.
CandidateDirs(store) ==
    {d \in Range(DirNames) :
        \E k \in DOMAIN store : IsPrefix(<<BasePath[1], "/", d, "/">>, k)}
ManifestAt(d) == <<BasePath[1], "/", d, "/", "manifest.json">>
HasManifest(store, d) == ManifestAt(d) \in DOMAIN store
WellFormed(store, d) ==
    /\ HasManifest(store, d)
    /\ store[ManifestAt(d)].kind = "json"
    /\ \A f \in ManifestFields : f \in DOMAIN store[ManifestAt(d)].obj
Dated(store, d) == json_loads(store[ManifestAt(d)]).name \in DateNames
ValidDirs(store) == {d \in CandidateDirs(store) : WellFormed(store, d) /\ Dated(store, d)}
UndatedStored(store) ==
    \E d \in CandidateDirs(store) : WellFormed(store, d) /\ ~Dated(store, d)
Descriptor(store, d) ==
    LET m == json_loads(store[ManifestAt(d)])
    IN  [s3_bucket |-> Bucket, name |-> m.name, hosts |-> m.hosts,
         keyspaces |-> m.keyspaces, table |-> m.table, base_path0 |-> m.base_path]

\* C4 as stated: a SnapshotCollection is populated at most once: whatever
\* the bucket holds, once a query was served the bucket has been listed
\* once and self.snapshots rebuilt once, however many queries followed.
C4_PopulatedOnce ==
    queries >= 1 => listings = 1 /\ populations = 1

\* C4, the part the code keeps: a catalog that holds a descriptor is never
\* listed or rebuilt again.
C4_NonEmptyCatalogIsKept ==
    [][(~snapshotsIsNone /\ Len(snapshots) > 0) =>
          (snapshots' = snapshots /\ listings' = listings)]_vars

\* C5: when every candidate in the bucket has no manifest.json, a manifest
\* that is not JSON or lacks a key, or a valid manifest, populating the
\* catalog does not raise and the catalog holds the descriptors of the
\* valid candidates, each once, and nothing else.
C5_CatalogResilience ==
    (queries >= 1 /\ ~UndatedStored(listed)) =>
        /\ result.exc # "ValueError"
        /\ ~snapshotsIsNone
        /\ Range(snapshots) = {Descriptor(listed, d) : d \in ValidDirs(listed)}
        /\ Len(snapshots) = Cardinality(ValidDirs(listed))

C5_Witness ==
    /\ queries >= 1
    /\ ~UndatedStored(listed)
    /\ Len(snapshots) = 1
    /\ Cardinality(CandidateDirs(listed)) = MaxCandidates
    /\ \E d \in CandidateDirs(listed) : ~HasManifest(listed, d)
    /\ \E d \in CandidateDirs(listed) :
          HasManifest(listed, d) /\ listed[ManifestAt(d)].kind # "json"

\* The newest of the valid stored descriptors.
Newest(store) ==
    CHOOSE d \in ValidDirs(store) :
        \A e \in ValidDirs(store) :
            DaysFromCivil(strptime(e)) <= DaysFromCivil(strptime(d))

\* C8 as stated: get_latest raises when the bucket held no valid
\* descriptor, and otherwise returns the valid stored descriptor with the
\* greatest creation time.
C8_GetLatest ==
    result.query = "get_latest" =>
        IF ValidDirs(listed) = {}
        THEN result.kind = "raise"
        ELSE result.kind = "snapshot"
             /\ result.val = <<Descriptor(listed, Newest(listed))>>

\* C8 on buckets in which every well-formed manifest is named by a date.
C8_GetLatestOfDated ==
    (result.query = "get_latest" /\ ~UndatedStored(listed)) =>
        IF ValidDirs(listed) = {}
        THEN result.kind = "raise" /\ result.exc = "IndexError"
        ELSE result.kind = "snapshot"
             /\ result.val = <<Descriptor(listed, Newest(listed))>>

\* C10: when the manifests stored are valid ones, the catalog's sequence
\* is in strictly descending order of the creation time their names
\* spell, in whatever order the bucket was listed.
C10_DescendingOrder ==
    (~snapshotsIsNone /\ ~UndatedStored(listed)) =>
        \A i, j \in DOMAIN snapshots :
            i < j => unix_time_name(snapshots[i]) > unix_time_name(snapshots[j])

C10_Witness ==
    /\ ~snapshotsIsNone
    /\ ~UndatedStored(listed)
    /\ Len(snapshots) = MaxCandidates
    /\ snapshots[1].name = DirNames[1]
    /\ snapshots[2].name = DirNames[3]
    /\ snapshots[3].name = DirNames[2]

\* A descriptor equal to the supplied values in hosts, keyspaces, table
\* and name.
Matches(x, args) ==
    /\ x.hosts = args.hosts
    /\ x.keyspaces = args.keyspaces
    /\ x.table = args.table
    /\ x.name = args.name
FirstMatch(list, args) ==
    list[CHOOSE i \in DOMAIN list :
            /\ Matches(list[i], args)
            /\ \A j \in DOMAIN list : j < i => ~Matches(list[j], args)]

\* C11 as stated: get_snapshot_for returns a descriptor only when that
\* descriptor equals the supplied hosts, keyspaces, table and name, and
\* then the first such in catalog order; when every catalog entry differs
\* from them in some field it returns absent and raises no error.
C11_ExactMatch ==
    result.query = "get_snapshot_for" =>
        /\ result.kind = "snapshot" =>
              /\ Matches(result.val[1], result.args)
              /\ result.val[1] = FirstMatch(snapshots, result.args)
        /\ (\A i \in DOMAIN snapshots : ~Matches(snapshots[i], result.args))
              => result.kind = "absent"

\* C11 for the calls in which populating the catalog did not raise: the
\* answer is the first entry equal in all four fields, and absent when
\* there is none.
C11_ExactMatchOnceListed ==
    (result.query = "get_snapshot_for" /\ result.kind # "raise") =>
        IF \E i \in DOMAIN snapshots : Matches(snapshots[i], result.args)
        THEN result.kind = "snapshot"
             /\ result.val = <<FirstMatch(snapshots, result.args)>>
        ELSE result.kind = "absent"

\* A call that found no match although an entry differs from the supplied
\* values in one field only (the table), next to a call that found one.
C11_SingleFieldDiffers ==
    /\ result.query = "get_snapshot_for"
    /\ result.kind = "absent"
    /\ \E i \in DOMAIN snapshots :
          /\ snapshots[i].hosts = result.args.hosts
          /\ snapshots[i].keyspaces = result.args.keyspaces
          /\ snapshots[i].name = result.args.name
          /\ snapshots[i].table # result.args.table

\* The nodetool commands host n was sent by the start-backup phase.
StartCommands(n) ==
    LET ran == SelectSeq(cmdLog[n], LAMBDA r : r.cmd.verb \in {"snapshot", "flush"})
    IN  [i \in DOMAIN ran |-> ran[i].cmd]
\* The keyspaces of the descriptor, none when the list is empty or absent.
Scope == IF snap.keyspaces = NoKeyspaces THEN <<>> ELSE snap.keyspaces
StartDone(n) ==
    \/ Has(events, Event("start", "ok"))
    \/ pc = "start" /\ nodeState[n] = "ok"

\* C12: the start-backup commands a host is sent. Full backup with a
\* table: one snapshot per keyspace, in keyspace order, each with that
\* table. Full backup without a table: one snapshot naming all keyspaces
\* (none when there are none). Incremental backup with keyspaces: one
\* flush per keyspace, with the table when one is set. Incremental backup
\* without keyspaces: one flush with neither keyspace nor table, even when
\* a table is set. A host is never sent more, and has been sent all of
\* them once its task succeeded.
C12_StartCommands ==
    \A n \in Nodes :
        LET sent == StartCommands(n)
            table == IF snap.table = None THEN "" ELSE snap.table
            perKeyspace == \/ (op = "snapshot" /\ snap.table # None)
                           \/ (op = "update_snapshot" /\ Scope # <<>>)
            expected == IF perKeyspace THEN Len(Scope) ELSE 1
        IN  /\ Len(sent) <= expected
            /\ StartDone(n) => Len(sent) = expected
            /\ \A i \in DOMAIN sent :
                  /\ sent[i].verb = IF op = "snapshot" THEN "snapshot" ELSE "flush"
                  /\ sent[i].keyspaces = IF perKeyspace THEN <<Scope[i]>> ELSE Scope
                  /\ sent[i].table = IF perKeyspace THEN table ELSE ""
                  /\ op = "snapshot" => sent[i].snapshot = snap.name

C12_Witness ==
    /\ op = "snapshot"
    /\ snap.table = "cf1"
    /\ Len(Scope) = MaxKeyspaces
    /\ Len(hosts) = NumNodes
    /\ \A n \in Nodes : StartDone(n) /\ Len(StartCommands(n)) = MaxKeyspaces

C12_WitnessUnscopedFlush ==
    /\ op = "update_snapshot"
    /\ snap.table = "cf1"
    /\ Scope = <<>>
    /\ \A n \in Nodes : StartDone(n) /\ Len(StartCommands(n)) = 1

C12_WitnessFlushPerKeyspace ==
    /\ op = "update_snapshot"
    /\ Len(Scope) = MaxKeyspaces
    /\ \A n \in Nodes : StartDone(n) /\ Len(StartCommands(n)) = MaxKeyspaces

\* The commands of a phase, and what host n ran of them.
PhaseVerbs(ph) ==
    CASE ph = "start" -> {"snapshot", "flush"}
      [] ph = "upload" -> {"create-upload-manifest", "put"}
      [] ph = "clear" -> {"clearsnapshot"}
PhaseLog(n, ph) == SelectSeq(cmdLog[n], LAMBDA r : r.cmd.verb \in PhaseVerbs(ph))
PhaseOrder == <<"start", "upload", "clear">>
Before(p, q) == IndexOf(PhaseOrder, p) < IndexOf(PhaseOrder, q)
\* Host n is through phase ph: it ran every command of its task, or its
\* task ended in a failure.
RanWhole(n, ph) ==
    LET task == NodeTask(ph, snap, op = "update_snapshot", n)
    IN  PhaseLog(n, ph) = [i \in DOMAIN task |-> Ran(task[i], TRUE)]
Through(n, ph) ==
    \/ NodeTaskRaises(ph, snap, op = "update_snapshot")
    \/ PhaseLog(n, ph) # <<>> /\ ~Last(PhaseLog(n, ph)).ok
    \/ RanWhole(n, ph)

\* C13: a parallel phase is dispatched to every node and is over only
\* when every node is through it: as long as the phase runs every host has
\* a task in it, a host is sent a command of a later phase only when every
\* host is through every earlier phase that was begun, and a phase that
\* ended well saw every host run its whole task.
C13_Barrier ==
    /\ \A ph \in ParallelPhases :
          /\ pc = ph => \A n \in Nodes : nodeState[n] \in {"running", "ok", "failed"}
          /\ Ended(ph) => \A n \in Nodes : Through(n, ph)
          /\ Has(events, Event(ph, "ok")) => \A n \in Nodes : RanWhole(n, ph)
    /\ \A p, q \in ParallelPhases :
          (Before(p, q) /\ Has(events, Event(p, "begin"))
             /\ \E n \in Nodes : PhaseLog(n, q) # <<>>)
            => \A m \in Nodes : Through(m, p)
    /\ \A n \in Nodes : nodeState[n] = "running" =>
          \A m \in Nodes, q \in ParallelPhases : Before(pc, q) => PhaseLog(m, q) = <<>>

\* Hosts run a phase in either order: the second host is through the
\* upload phase before the first has begun it, and the other way round,
\* and a host that failed does not stop the other from finishing.
C13_Witness ==
    /\ pc = "upload"
    /\ Len(hosts) = NumNodes
    /\ nodeState[hosts[NumNodes]] = "ok"
    /\ PhaseLog(hosts[1], "upload") = <<>>

C13_WitnessOtherOrder ==
    /\ pc = "upload"
    /\ Len(hosts) = NumNodes
    /\ nodeState[hosts[1]] = "ok"
    /\ PhaseLog(hosts[NumNodes], "upload") = <<>>

C13_WitnessFailedAndFinished ==
    /\ pc = "upload"
    /\ Len(hosts) = NumNodes
    /\ nodeState[hosts[1]] = "failed"
    /\ nodeState[hosts[NumNodes]] = "ok"
    /\ Len(PhaseLog(hosts[NumNodes], "upload")) > Len(PhaseLog(hosts[1], "upload"))

\* C14: the descriptor loaded from the manifest of a descriptor has that
\* descriptor's name, base path, hosts, keyspaces and table, whatever they
\* are and whatever the day of loading (the stored name replaces the name
\* of that day), and its manifest is the manifest it was loaded from,
\* stored under the same key.
C14_RoundTrip ==
    (op = "round trip" /\ pc \in {"loaded", "dumped again"}) =>
        /\ Len(snapshots) = 1
        /\ snapshots[1].name = snap.name
        /\ snapshots[1].base_path0 = snap.base_path0
        /\ snapshots[1].hosts = snap.hosts
        /\ snapshots[1].keyspaces = snap.keyspaces
        /\ snapshots[1].table = snap.table
        /\ snapshots[1].s3_bucket = Bucket
        /\ pc = "dumped again" => listed = s3

C14_Witness ==
    /\ op = "round trip"
    /\ pc = "dumped again"
    /\ snap.name # make_snapshot_name(utcnow)
    /\ snap.name \notin DateNames
    /\ snap.keyspaces = <<>>
    /\ snap.table = None
    /\ Len(snap.hosts) = NumNodes

C14_WitnessNoKeyspaces ==
    /\ op = "round trip"
    /\ pc = "dumped again"
    /\ snap.keyspaces = NoKeyspaces
    /\ snap.table = "cf1"

\* The key _read_s3 asks for in the backup directory of a name: the
\* listed name of the directory, a slash, manifest.json.
ReadKey(name) ==
    get_path(Join(<<list_prefix(collection_base_path) \o <<name, "/">>,
                    <<"manifest.json">>>>))

\* C15: after a full backup of a descriptor succeeded, a new catalog over
\* the bucket, the base path of either given with or without a trailing
\* slash, reads the manifest at the key the backup wrote it to, which is
\* <base path>/<name>/manifest.json, and holds a descriptor with the
\* name, hosts, keyspaces and table of the one backed up.
C15_PathAgreement ==
    (op = "snapshot" /\ pc = "done" /\ queries >= 1) =>
        /\ result.kind = "list"
        /\ writes[2] = ReadKey(snap.name)
        /\ ReadKey(snap.name) = <<BasePath[1], "/", snap.name, "/", "manifest.json">>
        /\ ReadKey(snap.name) \in DOMAIN listed
        /\ \E i \in DOMAIN snapshots :
              /\ snapshots[i].name = snap.name
              /\ snapshots[i].hosts = snap.hosts
              /\ snapshots[i].keyspaces = snap.keyspaces
              /\ snapshots[i].table = snap.table

C15_Witness ==
    /\ op = "snapshot"
    /\ pc = "done"
    /\ queries >= 1
    /\ endswith_slash(snap.base_path0)
    /\ ~endswith_slash(collection_base_path)
    /\ Len(snapshots) = 2
    /\ Len(hosts) = NumNodes

C15_WitnessOtherWay ==
    /\ op = "snapshot"
    /\ pc = "done"
    /\ queries >= 1
    /\ ~endswith_slash(snap.base_path0)
    /\ endswith_slash(collection_base_path)
    /\ Len(snapshots) >= 1

\* C16 as stated: a well-formed manifest whose name is not a date, stored
\* next to valid ones, never aborts populating the catalog: the query that
\* populates it does not raise, and the valid descriptors are in the
\* catalog, newest first.
C16_UndatedNeverAborts ==
    (queries >= 1 /\ UndatedStored(listed) /\ ValidDirs(listed) # {}) =>
        /\ result.exc # "ValueError"
        /\ \A d \in ValidDirs(listed) : Has(snapshots, Descriptor(listed, d))
        /\ \A i, j \in DOMAIN snapshots :
              (i < j /\ snapshots[i].name \in DateNames /\ snapshots[j].name \in DateNames)
                => unix_time_name(snapshots[i]) > unix_time_name(snapshots[j])

\* C16, what the code does keep: a manifest whose name is not a date,
\* alone in the bucket, is listed without an exception.
C16_UndatedAloneIsListed ==
    (queries = 1 /\ UndatedStored(listed) /\ ValidDirs(listed) = {}) =>
        /\ result.exc # "ValueError"
        /\ Len(snapshots) = 1

\* The objects the orchestrator itself stores for the descriptor.
OwnKeys == {RingKey, ManifestKey} \cup SchemaKeys
TryFailed == Has(events, Event("start", "fail")) \/ Has(events, Event("upload", "fail"))

\* C17: in a full backup the ring description is written only after the
\* cleanup phase has ended well, every host having run clearsnapshot; and
\* when the start-backup or upload phase failed, the run raises once the
\* cleanup has ended and writes nothing: write_on_S3 is never called, no
\* nodetool ring or cqlsh command is run, and ring, manifest and schema in
\* the bucket are as they were found.
C17_RingAfterCleanup ==
    op = "snapshot" =>
        /\ (Has(events, Event("ring", "begin")) \/ Has(writes, RingKey)
               \/ mainCmds # <<>>) =>
              /\ Has(events, Event("clear", "ok"))
              /\ IndexOf(events, Event("clear", "ok")) + 1
                    = IndexOf(events, Event("ring", "begin"))
              /\ \A n \in Nodes : ClearCommands(n) = 1 /\ Last(cmdLog[n]).ok
        /\ TryFailed =>
              /\ writes = <<>>
              /\ mainCmds = <<>>
              /\ \A w \in WritePhases : ~Has(events, Event(w, "begin"))
              /\ RingKey \notin DOMAIN s3
              /\ SchemaKeys \cap DOMAIN s3 = {}
              /\ ManifestKey \in DOMAIN s3 => s3[ManifestKey] = dump_manifest_file(snap)
              /\ pc \in {"clear", "raised"}
              /\ pc = "raised" => Ended("clear") /\ Last(events).ph = "clear"

\* The upload failed on one host after another had put its files: the
\* cleanup ran, the run raised, and the orchestrator wrote nothing.
C17_Witness ==
    /\ op = "snapshot"
    /\ pc = "raised"
    /\ Has(events, Event("upload", "fail"))
    /\ Has(events, Event("clear", "ok"))
    /\ \E n \in Nodes : Has(cmdLog[n], Ran(upload_node_backups(snap, FALSE, n)[2], TRUE))
    /\ writes = <<>>

C17_WitnessRingWritten ==
    /\ op = "snapshot"
    /\ Has(writes, RingKey)
    /\ Len(hosts) = NumNodes

\* C18 as stated: in the upload phase, whether commands run on the hosts
\* or locally, the upload manifest a host's put is given is the one that
\* host's own create-upload-manifest wrote, never another host's.
C18_OwnUploadManifest ==
    \A n \in Nodes : put_read[n] \in {None, n}

\* C18 where commands run on the hosts themselves (run, sudo): each host
\* has its own /tmp/backupmanifest, and its put is given the manifest its
\* own task wrote just before.
C18_OwnUploadManifestOnHosts ==
    ~use_local =>
        \A n \in Nodes :
            /\ put_read[n] \in {None, n}
            /\ (\E i \in DOMAIN cmdLog[n] : cmdLog[n][i].cmd.verb = "put")
                  => put_read[n] = n

C18_PutOnHosts ==
    /\ ~use_local
    /\ Len(hosts) = NumNodes
    /\ \A n \in Nodes : put_read[n] = n

\* The schema objects written so far, in order, and the one object per
\* keyspace of the descriptor under the backup root.
SchemaWrites == SelectSeq(writes, LAMBDA k : k \in SchemaKeys)
CombinedSchemaKey == <<BasePath[1], "/", snap.name, "/", "schema.cql">>
KeyspaceSchemaKey(ks) ==
    <<BasePath[1], "/", snap.name, "/",
      SchemaFileNames[IndexOf(KeyspaceNames, ks)]>>
ExpectedSchemaWrites ==
    IF ~backup_schema THEN <<>>
    ELSE IF Scope = <<>> THEN <<CombinedSchemaKey>>
    ELSE [i \in DOMAIN Scope |-> KeyspaceSchemaKey(Scope[i])]

\* C19: a backup, full or incremental, that has run to its end has
\* written, with schema backup enabled, one schema_<keyspace>.cql under
\* the backup root for each keyspace of a non-empty keyspace list and no
\* schema.cql, or the one schema.cql when there is no keyspace; with
\* schema backup disabled it has written no schema object. No run writes
\* a schema object beyond these, or one of them twice.
C19_SchemaDump ==
    op \in {"snapshot", "update_snapshot"} =>
        /\ Len(SchemaWrites) <= Len(ExpectedSchemaWrites)
        /\ \A i \in DOMAIN SchemaWrites : SchemaWrites[i] = ExpectedSchemaWrites[i]
        /\ pc = "done" =>
              /\ SchemaWrites = ExpectedSchemaWrites
              /\ SchemaKeys \cap DOMAIN s3 = Range(ExpectedSchemaWrites)
        /\ ~backup_schema => DescribeCommands = {}

C19_Witness ==
    /\ op = "snapshot"
    /\ pc = "done"
    /\ backup_schema
    /\ Len(Scope) = MaxKeyspaces
    /\ Len(SchemaWrites) = MaxKeyspaces

C19_WitnessCombined ==
    /\ op = "update_snapshot"
    /\ pc = "done"
    /\ backup_schema
    /\ snap.keyspaces = NoKeyspaces
    /\ SchemaWrites = <<CombinedSchemaKey>>

C19_WitnessDisabled ==
    /\ op = "snapshot"
    /\ pc = "done"
    /\ ~backup_schema
    /\ Len(writes) = 2

\* C20: a full backup whose cleanup phase failed, after a start-backup
\* and upload phase that succeeded or not, has raised at that point: the
\* failed cleanup is the last thing it did, the cleanup was begun once and
\* no host was sent clearsnapshot twice, write_on_S3 was never called, no
\* nodetool ring or cqlsh command was run, and no ring or schema object is
\* in the bucket and the manifest is as it was found.
C20_CleanupFailure ==
    (op = "snapshot" /\ Has(events, Event("clear", "fail"))) =>
        /\ pc = "raised"
        /\ Last(events) = Event("clear", "fail")
        /\ Count(events, Event("clear", "begin")) = 1
        /\ \A n \in Nodes : ClearCommands(n) = 1
        /\ \E n \in Nodes : ~Last(cmdLog[n]).ok /\ Last(cmdLog[n]).cmd.verb = "clearsnapshot"
        /\ writes = <<>>
        /\ mainCmds = <<>>
        /\ \A w \in WritePhases : ~Has(events, Event(w, "begin"))
        /\ RingKey \notin DOMAIN s3
        /\ SchemaKeys \cap DOMAIN s3 = {}
        /\ ManifestKey \in DOMAIN s3 => s3[ManifestKey] = dump_manifest_file(snap)

C20_Witness ==
    /\ op = "snapshot"
    /\ Has(events, Event("start", "ok"))
    /\ Has(events, Event("upload", "ok"))
    /\ Has(events, Event("clear", "fail"))
    /\ Len(hosts) = NumNodes
    /\ \E n \in Nodes : Last(cmdLog[n]).ok

C20_WitnessAfterFailedUpload ==
    /\ op = "snapshot"
    /\ Has(events, Event("upload", "fail"))
    /\ Has(events, Event("clear", "fail"))

====
